---- MODULE Spec2Model ----
(***************************************************************************)
(* Order lifecycle of the stock management API: order intake, approval     *)
(* (stock re-check, transactional stock settlement), rejection, and the    *)
(* stock routes that write the same stock rows.                            *)
(*                                                                         *)
(* The database is the shared state (tables stock_items, orders with       *)
(* their order_items).  Every HTTP request runs in a request slot; a       *)
(* handler is cut into steps at the points where it awaits the database    *)
(* and another request can run.  Writes issued inside prisma.$transaction  *)
(* take a row lock and become visible to other requests at COMMIT.         *)
(***************************************************************************)
EXTENDS Integers, Sequences, FiniteSets, TLC

\* ---------------------------------------------------------------- bounds
MaxReqs == 2
MaxOrders == 2
MaxLines == 2
MaxQty == 2
MaxStock == 3
\* rows the order_items table holds at most
MaxRows == 3

Reqs == 1..MaxReqs
OrderIds == 1..MaxOrders
StockIds == {1, 2}
\* a stock id no row of stock_items carries
MissingStockId == 3

\* ------------------------------------------------------------ vocabulary
Roles == {"ADMIN", "MANAGER", "STORE_KEEPER", "SALES_REPRESENTATIVE"}
OrderStatus == {"PENDING", "APPROVED", "REJECTED"}

\* SQL NULL in orders.rejectionReason
NULL == "NULL"
\* a JSON field that the request body does not carry
Undefined == "undefined"

\* callers as resolved by the authentication middleware: req.user
Users ==
  { [id |-> "rep1", role |-> "SALES_REPRESENTATIVE"],
    [id |-> "keeper", role |-> "STORE_KEEPER"],
    [id |-> "manager", role |-> "MANAGER"],
    [id |-> "admin", role |-> "ADMIN"] }

\* requireRole(roles): the handler runs only for a caller whose role is listed
requireRole(roles, user) == user.role \in roles

\* ------------------------------------------------------------- responses
\* what a handler sends: the route that answers, the HTTP status, and the
\* error text of a failure or the status of the order in the body; arg is the
\* stock item an error message names; list is the array a listing returns
\* (the ids of the orders, in the order sent)
NoResp == [route |-> "", status |-> 0, error |-> "", arg |-> 0, list |-> <<>>]
Resp(route, status, error, arg) ==
  [route |-> route, status |-> status, error |-> error, arg |-> arg,
   list |-> <<>>]
Forbidden(route) == Resp(route, 403, "Insufficient permissions", 0)

\* ----------------------------------------------------------------- state
VARIABLES
  stock,        \* stock_items: id -> quantity
  buyingPrice,  \* stock_items: id -> buyingPrice
  orders,       \* orders, in creation order; the order id is the position
  req,          \* request slots: where each request in flight stands
  out           \* the response sent by the last step, NoResp when it sent none

vars == <<stock, buyingPrice, orders, req, out>>
db == <<stock, buyingPrice, orders>>

\* a slot with no request in flight
Idle == [pc |-> "idle", id |-> 0, i |-> 0]

\* an arriving request takes the lowest slot that is free
Free(p) ==
  /\ req[p].pc = "idle"
  /\ \A q \in Reqs : q < p => req[q].pc # "idle"

\* res.status(..).json(..): the response r is sent and slot p is free again
Respond(p, r) ==
  /\ req' = [req EXCEPT ![p] = Idle]
  /\ out' = r

\* a step that awaits the database again and sends nothing yet
Continue(p, slot) ==
  /\ req' = [req EXCEPT ![p] = slot]
  /\ out' = NoResp

\* the stock rows written, and so locked, by the open transaction of slot q:
\* the first i lines of its order (i counts the updates the transaction issued)
Min(a, b) == IF a < b THEN a ELSE b

TxItemCount(q) == Len(orders[req[q].id].orderItems)

LockedStock(q) ==
  IF req[q].pc = "tx"
  THEN { orders[req[q].id].orderItems[j].stockItemId :
           j \in 1..Min(req[q].i, TxItemCount(q)) }
  ELSE {}

\* the order row is locked once the transaction has issued its order update
LocksOrder(q, id) ==
  /\ req[q].pc = "tx"
  /\ req[q].id = id
  /\ req[q].i = TxItemCount(q) + 1

StockRowFree(p, s) == \A q \in Reqs \ {p} : s \notin LockedStock(q)
OrderRowFree(p, id) == \A q \in Reqs \ {p} : ~LocksOrder(q, id)

\* ------------------------------------------------------ POST /api/orders
\* item.sellingPrice || 0 : an absent (or zero) price counts as 0
PriceOrZero(sellingPrice) ==
  IF sellingPrice = <<>> THEN 0 ELSE sellingPrice[1]

\* (variant: the line is priced from the stock item's own price)
OrderItem_BuyingPrice(item) ==
  LET sellingPrice == buyingPrice[item.stockItemId]
      itemTotal == sellingPrice * item.quantity
  IN [stockItemId |-> item.stockItemId,
      quantity |-> item.quantity,
      unitPrice |-> sellingPrice,
      totalPrice |-> itemTotal]

\* one pass of the for loop over items: the order line pushed for item
OrderItem(item) ==
  LET sellingPrice == PriceOrZero(item.sellingPrice)
      itemTotal == sellingPrice * item.quantity
  IN [stockItemId |-> item.stockItemId,
      quantity |-> item.quantity,
      unitPrice |-> sellingPrice,
      totalPrice |-> itemTotal]

\* (variant: a line that fails is skipped and the loop goes on)
ValidateItems_SkipBad(st, items, k, orderItems, totalAmount) ==
  LET item == items[k] IN
  IF \/ item.stockItemId \notin DOMAIN st
     \/ st[item.stockItemId] < item.quantity
  THEN [ok |-> TRUE, resp |-> NoResp,
        orderItems |-> orderItems, totalAmount |-> totalAmount]
  ELSE [ok |-> TRUE, resp |-> NoResp,
        orderItems |-> Append(orderItems, OrderItem(item)),
        totalAmount |-> totalAmount + OrderItem(item).totalPrice]

\* (variant: the total is overwritten by each line instead of accumulated)
ValidateItems_TotalOfLast(st, items, k, orderItems, totalAmount) ==
  LET item == items[k] IN
  IF item.stockItemId \notin DOMAIN st
  THEN [ok |-> FALSE,
        resp |-> Resp("create", 400, "Stock item not found", item.stockItemId),
        orderItems |-> <<>>, totalAmount |-> 0]
  ELSE IF st[item.stockItemId] < item.quantity
  THEN [ok |-> FALSE,
        resp |-> Resp("create", 400, "Insufficient stock", item.stockItemId),
        orderItems |-> <<>>, totalAmount |-> 0]
  ELSE [ok |-> TRUE, resp |-> NoResp,
        orderItems |-> Append(orderItems, OrderItem(item)),
        totalAmount |-> OrderItem(item).totalPrice]

\* one pass of the validation loop, for item k, given the lines and the total
\* so far and the stock rows as they are when the pass reads: it returns at a
\* line that fails, else pushes the line and adds its total
ValidateItems(st, items, k, orderItems, totalAmount) ==
  LET item == items[k] IN
  IF item.stockItemId \notin DOMAIN st
  THEN [ok |-> FALSE,
        resp |-> Resp("create", 400, "Stock item not found", item.stockItemId),
        orderItems |-> <<>>, totalAmount |-> 0]
  ELSE IF st[item.stockItemId] < item.quantity
  THEN [ok |-> FALSE,
        resp |-> Resp("create", 400, "Insufficient stock", item.stockItemId),
        orderItems |-> <<>>, totalAmount |-> 0]
  ELSE [ok |-> TRUE, resp |-> NoResp,
        orderItems |-> Append(orderItems, OrderItem(item)),
        totalAmount |-> totalAmount + OrderItem(item).totalPrice]

\* (variant: the status column has no PENDING default)
NewOrder_NoDefault(user, v) ==
  [status |-> "APPROVED",
   rejectionReason |-> NULL,
   totalAmount |-> v.totalAmount,
   salesRepId |-> user.id,
   orderItems |-> v.orderItems]

\* the row prisma.order.create inserts: status and rejectionReason take the
\* column defaults
NewOrder(user, v) ==
  [status |-> "PENDING",
   rejectionReason |-> NULL,
   totalAmount |-> v.totalAmount,
   salesRepId |-> user.id,
   orderItems |-> v.orderItems]

\* rows of order_items
RECURSIVE RowCount(_, _)
RowCount(os, k) ==
  IF k > Len(os) THEN 0 ELSE Len(os[k].orderItems) + RowCount(os, k + 1)

\* the create requests in flight, and the lines they will insert
Creating == { q \in Reqs : req[q].pc = "create" }
RECURSIVE RowsInFlight(_)
RowsInFlight(qs) ==
  IF qs = {} THEN 0
  ELSE LET q == CHOOSE x \in qs : TRUE
       IN Len(req[q].items) + RowsInFlight(qs \ {q})

\* await prisma.stockItem.findUnique for the next line of the request in
\* slot, and the tests on the row read: the request answers 400 or goes on
\* with the line pushed.  Nothing is written.
CreateFindStock(p, slot) ==
  LET v == ValidateItems(stock, slot.items, slot.i + 1,
                         slot.orderItems, slot.totalAmount) IN
  /\ IF ~v.ok
     THEN Respond(p, v.resp)
     ELSE Continue(p, [slot EXCEPT !.i = @ + 1,
                                   !.orderItems = v.orderItems,
                                   !.totalAmount = v.totalAmount])
  /\ UNCHANGED db

\* The request arrives: role and body are tested and the first line's stock
\* row is read.  The tables are bounded: a request that would not fit, with
\* the creations in flight, is not issued.
CreateOrder(p, user, body) ==
  /\ Free(p)
  /\ Len(orders) + Cardinality(Creating) < MaxOrders
  /\ RowCount(orders, 1) + RowsInFlight(Creating) + Len(body.items) <= MaxRows
  /\ IF ~requireRole({"SALES_REPRESENTATIVE"}, user)
     THEN /\ Respond(p, Forbidden("create"))
          /\ UNCHANGED db
     ELSE IF \/ body.customerName = ""
             \/ body.customerContact = ""
             \/ ~body.hasItems
             \/ Len(body.items) = 0
     THEN /\ Respond(p, Resp("create", 400, "Customer details and items are required", 0))
          /\ UNCHANGED db
     ELSE CreateFindStock(p, [pc |-> "create", id |-> 0, i |-> 0,
                              user |-> user, items |-> body.items,
                              orderItems |-> <<>>, totalAmount |-> 0])

\* the loop goes on: the stock row of the next line is read
CreateNextItem(p) ==
  /\ req[p].pc = "create"
  /\ req[p].i < Len(req[p].items)
  /\ CreateFindStock(p, req[p])

\* await prisma.order.create: the order and its lines are inserted as they
\* were collected, whatever the stock rows hold by now
CreateInsert(p) ==
  /\ req[p].pc = "create"
  /\ req[p].i = Len(req[p].items)
  /\ orders' = Append(orders, NewOrder(req[p].user, req[p]))
  /\ Respond(p, Resp("create", 201, "PENDING", 0))
  /\ UNCHANGED <<stock, buyingPrice>>

\* ------------------------------------------- PATCH /api/orders/:id/approve
\* the re-check loop over the lines loaded with the order: the first line
\* whose stock item holds less than the line asks for, 0 when there is none
\* (variant: only the first line is re-checked)
FirstShort_FirstLineOnly(st, orderItems, k) ==
  IF k > Len(orderItems) THEN 0
  ELSE IF st[orderItems[k].stockItemId] < orderItems[k].quantity THEN k
  ELSE 0

RECURSIVE FirstShort(_, _, _)
FirstShort(st, orderItems, k) ==
  IF k > Len(orderItems) THEN 0
  ELSE IF st[orderItems[k].stockItemId] < orderItems[k].quantity THEN k
  ELSE FirstShort(st, orderItems, k + 1)

\* (variant: the status guard is missing)
NotPending_Never(order) == FALSE

\* order.status !== 'PENDING'
NotPending(order) == order.status # "PENDING"

\* (variant: the route admits every role)
ApproveFind_AnyRole(p, user, id) ==
  /\ Free(p)
  /\ UNCHANGED db
  /\ IF id > Len(orders)
     THEN Respond(p, Resp("approve", 404, "Order not found", 0))
     ELSE IF NotPending(orders[id])
     THEN Respond(p, Resp("approve", 400, "Order is not pending", 0))
     ELSE LET k == FirstShort(stock, orders[id].orderItems, 1) IN
          IF k # 0
          THEN Respond(p, Resp("approve", 400, "Insufficient stock",
                               orders[id].orderItems[k].stockItemId))
          ELSE Continue(p, [pc |-> "tx", id |-> id, i |-> 0])

\* findUnique with the lines and their stock items, then the checks that run
\* on what was loaded; a request that passes them opens the transaction
ApproveFind(p, user, id) ==
  /\ Free(p)
  /\ UNCHANGED db
  /\ IF ~requireRole({"STORE_KEEPER"}, user)
     THEN Respond(p, Forbidden("approve"))
     ELSE IF id > Len(orders)
     THEN Respond(p, Resp("approve", 404, "Order not found", 0))
     ELSE IF NotPending(orders[id])
     THEN Respond(p, Resp("approve", 400, "Order is not pending", 0))
     ELSE LET k == FirstShort(stock, orders[id].orderItems, 1) IN
          IF k # 0
          THEN Respond(p, Resp("approve", 400, "Insufficient stock",
                               orders[id].orderItems[k].stockItemId))
          ELSE Continue(p, [pc |-> "tx", id |-> id, i |-> 0])

\* tx.stockItem.update for the next line: UPDATE ... SET quantity = quantity - n
\* waits while another open transaction holds the row
TxUpdateStock(p) ==
  /\ req[p].pc = "tx"
  /\ req[p].i < TxItemCount(p)
  /\ StockRowFree(p, orders[req[p].id].orderItems[req[p].i + 1].stockItemId)
  /\ Continue(p, [req[p] EXCEPT !.i = @ + 1])
  /\ UNCHANGED db

\* tx.order.update: status APPROVED, whatever the row holds by now
TxUpdateOrder(p) ==
  /\ req[p].pc = "tx"
  /\ req[p].i = TxItemCount(p)
  /\ OrderRowFree(p, req[p].id)
  /\ Continue(p, [req[p] EXCEPT !.i = @ + 1])
  /\ UNCHANGED db

\* (variant: quantity is set to the line's quantity instead of decremented)
RECURSIVE Decremented_Set(_, _, _)
Decremented_Set(st, orderItems, k) ==
  IF k > Len(orderItems) THEN st
  ELSE Decremented_Set(
         [st EXCEPT ![orderItems[k].stockItemId] = orderItems[k].quantity],
         orderItems, k + 1)

\* the quantities after the decrements of lines k.. are applied in turn
RECURSIVE Decremented(_, _, _)
Decremented(st, orderItems, k) ==
  IF k > Len(orderItems) THEN st
  ELSE Decremented(
         [st EXCEPT ![orderItems[k].stockItemId] = @ - orderItems[k].quantity],
         orderItems, k + 1)

\* COMMIT: the decrements and the status update take effect together
TxCommit(p) ==
  /\ req[p].pc = "tx"
  /\ req[p].i = TxItemCount(p) + 1
  /\ stock' = Decremented(stock, orders[req[p].id].orderItems, 1)
  /\ orders' = [orders EXCEPT ![req[p].id].status = "APPROVED"]
  /\ UNCHANGED buyingPrice
  /\ Continue(p, [req[p] EXCEPT !.pc = "committed", !.i = 0])

\* (variant: the updates run outside a transaction, so the ones issued before
\* the failure stay)
RECURSIVE DecrementedFirst(_, _, _, _)
DecrementedFirst(st, orderItems, k, n) ==
  IF k > n THEN st
  ELSE DecrementedFirst(
         [st EXCEPT ![orderItems[k].stockItemId] = @ - orderItems[k].quantity],
         orderItems, k + 1, n)

TxRollback_NoTransaction(p) ==
  /\ req[p].pc = "tx"
  /\ stock' = DecrementedFirst(stock, orders[req[p].id].orderItems, 1,
                               Min(req[p].i, TxItemCount(p)))
  /\ UNCHANGED <<buyingPrice, orders>>
  /\ Respond(p, Resp("approve", 500, "Internal server error", 0))

\* a statement or the commit throws (deadlock victim, transaction timeout,
\* lost connection): ROLLBACK, and the catch block answers 500
TxRollback(p) ==
  /\ req[p].pc = "tx"
  /\ Respond(p, Resp("approve", 500, "Internal server error", 0))
  /\ UNCHANGED db

\* the order is read again and sent
ApproveRespond(p) ==
  /\ req[p].pc = "committed"
  /\ Respond(p, Resp("approve", 200, orders[req[p].id].status, 0))
  /\ UNCHANGED db

\* (variant: the update sets the status only)
RejectOrder_DropsReason(p, user, id, rejectionReason) ==
  /\ Free(p)
  /\ IF ~requireRole({"STORE_KEEPER"}, user)
     THEN /\ Respond(p, Forbidden("reject"))
          /\ UNCHANGED db
     ELSE IF rejectionReason = Undefined \/ rejectionReason = ""
     THEN /\ Respond(p, Resp("reject", 400, "Rejection reason is required", 0))
          /\ UNCHANGED db
     ELSE IF id > Len(orders)
     THEN /\ Respond(p, Resp("reject", 500, "Internal server error", 0))
          /\ UNCHANGED db
     ELSE /\ OrderRowFree(p, id)
          /\ orders' = [orders EXCEPT ![id].status = "REJECTED"]
          /\ Respond(p, Resp("reject", 200, "REJECTED", 0))
          /\ UNCHANGED <<stock, buyingPrice>>

\* (variant: only an absent reason is refused, an empty one is stored)
RejectOrder_EmptyAccepted(p, user, id, rejectionReason) ==
  /\ Free(p)
  /\ IF ~requireRole({"STORE_KEEPER"}, user)
     THEN /\ Respond(p, Forbidden("reject"))
          /\ UNCHANGED db
     ELSE IF rejectionReason = Undefined
     THEN /\ Respond(p, Resp("reject", 400, "Rejection reason is required", 0))
          /\ UNCHANGED db
     ELSE IF id > Len(orders)
     THEN /\ Respond(p, Resp("reject", 500, "Internal server error", 0))
          /\ UNCHANGED db
     ELSE /\ OrderRowFree(p, id)
          /\ orders' = [orders EXCEPT ![id].status = "REJECTED",
                                      ![id].rejectionReason = rejectionReason]
          /\ Respond(p, Resp("reject", 200, "REJECTED", 0))
          /\ UNCHANGED <<stock, buyingPrice>>

\* -------------------------------------------- PATCH /api/orders/:id/reject
\* one prisma.order.update by id; it waits while an open transaction holds
\* the order row, and throws (500) when no row has the id
RejectOrder(p, user, id, rejectionReason) ==
  /\ Free(p)
  /\ IF ~requireRole({"STORE_KEEPER"}, user)
     THEN /\ Respond(p, Forbidden("reject"))
          /\ UNCHANGED db
     ELSE IF rejectionReason = Undefined \/ rejectionReason = ""
     THEN /\ Respond(p, Resp("reject", 400, "Rejection reason is required", 0))
          /\ UNCHANGED db
     ELSE IF id > Len(orders)
     THEN /\ Respond(p, Resp("reject", 500, "Internal server error", 0))
          /\ UNCHANGED db
     ELSE /\ OrderRowFree(p, id)
          /\ orders' = [orders EXCEPT ![id].status = "REJECTED",
                                      ![id].rejectionReason = rejectionReason]
          /\ Respond(p, Resp("reject", 200, "REJECTED", 0))
          /\ UNCHANGED <<stock, buyingPrice>>

\* -------------------------------------------------------- GET /api/orders
\* (variant: the where clause is dropped)
RECURSIVE FindMany_NoWhere(_, _, _)
FindMany_NoWhere(os, salesRepId, k) ==
  IF k = 0 THEN <<>>
  ELSE <<k>> \o FindMany_NoWhere(os, salesRepId, k - 1)

\* prisma.order.findMany, orderBy createdAt desc: the ids of the rows from
\* row k down to the first; salesRepId is the where clause, Undefined when
\* the query has none
RECURSIVE FindMany(_, _, _)
FindMany(os, salesRepId, k) ==
  IF k = 0 THEN <<>>
  ELSE IF salesRepId = Undefined \/ os[k].salesRepId = salesRepId
       THEN <<k>> \o FindMany(os, salesRepId, k - 1)
       ELSE FindMany(os, salesRepId, k - 1)

\* any authenticated caller; one read, nothing written
ListOrders(p, user) ==
  /\ Free(p)
  /\ UNCHANGED db
  /\ LET found ==
           IF user.role = "SALES_REPRESENTATIVE"
           THEN FindMany(orders, user.id, Len(orders))
           ELSE FindMany(orders, Undefined, Len(orders))
     IN Respond(p, [Resp("list", 200, "", 0) EXCEPT !.list = found])

\* ------------------------------------------------------- POST /api/stock
\* A stock item is known by the number of its name: the name is unique, is
\* never updated, and the row created for name n gets id n.  A quantity in a
\* request body is a JSON number given in halves: <<h>> stands for h/2, <<>>
\* for a field the body does not carry.

\* parseInt(quantity): the digits before the decimal point, so h/2 truncated
\* toward zero
ParseInt(h) == IF h >= 0 THEN h \div 2 ELSE -((-h) \div 2)

\* parseFloat(buyingPrice) of a JSON number is that number
ParseFloat(x) == x

\* the table with the row n |-> v inserted
Inserted(table, n, v) ==
  [s \in DOMAIN table \cup {n} |-> IF s = n THEN v ELSE table[s]]

\* The request arrives, the body is tested and findUnique looks the name up.
StockCreate(p, user, body) ==
  /\ Free(p)
  /\ UNCHANGED db
  /\ IF ~requireRole({"MANAGER"}, user)
     THEN Respond(p, Forbidden("stock.create"))
     ELSE IF body.name = <<>> \/ body.quantity = <<>> \/ body.buyingPrice = <<>>
     THEN Respond(p, Resp("stock.create", 400,
                          "Name, quantity, and buying price are required", 0))
     ELSE IF body.quantity[1] < 0 \/ body.buyingPrice[1] < 0
     THEN Respond(p, Resp("stock.create", 400, "Values must be non-negative", 0))
     ELSE IF body.name[1] \in DOMAIN stock
     THEN Respond(p, Resp("stock.create", 400,
                          "Item with this name already exists", body.name[1]))
     ELSE Continue(p, [pc |-> "stock.create", id |-> 0, i |-> 0, body |-> body])

\* await prisma.stockItem.create: the row is inserted with the values parsed;
\* when a row of that name exists by now the unique index refuses the insert
\* and the catch block answers 500
StockInsert(p) ==
  /\ req[p].pc = "stock.create"
  /\ UNCHANGED orders
  /\ LET body == req[p].body IN
     IF body.name[1] \in DOMAIN stock
     THEN /\ Respond(p, Resp("stock.create", 500, "Internal server error", 0))
          /\ UNCHANGED <<stock, buyingPrice>>
     ELSE /\ stock' = Inserted(stock, body.name[1], ParseInt(body.quantity[1]))
          /\ buyingPrice' = Inserted(buyingPrice, body.name[1],
                                     ParseFloat(body.buyingPrice[1]))
          /\ Respond(p, Resp("stock.create", 201, "", body.name[1]))

\* --------------------------------------------------- PATCH /api/stock/:id
\* one prisma.stockItem.update by id with the fields the body carries, stored
\* as parsed; it waits while an open transaction holds the row, and throws
\* (500) when no row has the id
StockUpdate(p, user, id, body) ==
  /\ Free(p)
  /\ UNCHANGED orders
  /\ IF ~requireRole({"MANAGER"}, user)
     THEN /\ Respond(p, Forbidden("stock.update"))
          /\ UNCHANGED <<stock, buyingPrice>>
     ELSE IF id \notin DOMAIN stock
     THEN /\ Respond(p, Resp("stock.update", 500, "Internal server error", 0))
          /\ UNCHANGED <<stock, buyingPrice>>
     ELSE /\ StockRowFree(p, id)
          /\ stock' = IF body.quantity = <<>> THEN stock
                      ELSE [stock EXCEPT ![id] = ParseInt(body.quantity[1])]
          /\ buyingPrice' = IF body.buyingPrice = <<>> THEN buyingPrice
                            ELSE [buyingPrice EXCEPT
                                    ![id] = ParseFloat(body.buyingPrice[1])]
          /\ Respond(p, Resp("stock.update", 200, "", id))

\* ------------------------------------------------------------ the inputs
Prices == {<<5>>}
LineInputs ==
  [stockItemId : StockIds \cup {MissingStockId},
   quantity : 1..MaxQty,
   sellingPrice : Prices]
ItemLists == UNION { [1..n -> LineInputs] : n \in 0..MaxLines }
\* request bodies: complete ones with every item list, and one body for each
\* missing field
Bodies ==
  [customerName : {"Abebe"}, customerContact : {"0911"},
   hasItems : {TRUE}, items : ItemLists]
  \cup
  { [customerName |-> "", customerContact |-> "0911", hasItems |-> TRUE,
     items |-> <<[stockItemId |-> 1, quantity |-> 1, sellingPrice |-> <<>>]>>],
    [customerName |-> "Abebe", customerContact |-> "", hasItems |-> TRUE,
     items |-> <<[stockItemId |-> 1, quantity |-> 1, sellingPrice |-> <<>>]>>],
    [customerName |-> "Abebe", customerContact |-> "0911", hasItems |-> FALSE,
     items |-> <<>>] }
Reasons == {Undefined, "", "customer cancelled"}

\* the requests issued: every input from a caller whose role the route admits,
\* one request from each other caller
SomeBody == CHOOSE body \in Bodies : body.hasItems /\ Len(body.items) = 1
CreateInputs ==
  { in \in Users \X Bodies :
      in[1].role = "SALES_REPRESENTATIVE" \/ in[2] = SomeBody }
ApproveInputs ==
  { in \in Users \X OrderIds : in[1].role = "STORE_KEEPER" \/ in[2] = 1 }
RejectInputs ==
  { in \in Users \X OrderIds \X Reasons :
      in[1].role = "STORE_KEEPER" \/ (in[2] = 1 /\ in[3] = "customer cancelled") }

\* ------------------------------------------------------ the specification
Init ==
  /\ stock = [s \in StockIds |-> MaxStock]
  /\ buyingPrice = [s \in StockIds |-> 0]
  /\ orders = <<>>
  /\ req = [p \in Reqs |-> Idle]
  /\ out = NoResp

Next ==
  \E p \in Reqs :
    \/ \E in \in CreateInputs : CreateOrder(p, in[1], in[2])
    \/ CreateNextItem(p)
    \/ CreateInsert(p)
    \/ \E in \in ApproveInputs : ApproveFind(p, in[1], in[2])
    \/ TxUpdateStock(p)
    \/ TxUpdateOrder(p)
    \/ TxCommit(p)
    \/ TxRollback(p)
    \/ ApproveRespond(p)
    \/ \E in \in RejectInputs : RejectOrder(p, in[1], in[2], in[3])

Spec == Init /\ [][Next]_vars


\* ------------------------------------------ two approvals racing for stock
\* Two PENDING orders, one line each on the same stock item: each quantity
\* fits what is on hand, both together do not.
RaceOrder(st, s, q) ==
  NewOrder([id |-> "rep1", role |-> "SALES_REPRESENTATIVE"],
           ValidateItems(st, <<[stockItemId |-> s, quantity |-> q,
                                sellingPrice |-> <<5>>]>>, 1, <<>>, 0))

InitRace ==
  /\ \E st \in [StockIds -> 0..MaxStock], s \in StockIds, q1, q2 \in 1..MaxQty :
       /\ q1 <= st[s]
       /\ q2 <= st[s]
       /\ q1 + q2 > st[s]
       /\ stock = st
       /\ buyingPrice = [t \in StockIds |-> 0]
       /\ orders = <<RaceOrder(st, s, q1), RaceOrder(st, s, q2)>>
  /\ req = [p \in Reqs |-> Idle]
  /\ out = NoResp

\* approve requests only, each for an order that is PENDING when it arrives
\* and that no other request in flight is approving
NextRace ==
  \E p \in Reqs :
    \/ \E user \in Users, id \in OrderIds :
         /\ user.role = "STORE_KEEPER"
         /\ id <= Len(orders)
         /\ orders[id].status = "PENDING"
         /\ \A q \in Reqs : req[q].id # id
         /\ ApproveFind(p, user, id)
    \/ TxUpdateStock(p)
    \/ TxUpdateOrder(p)
    \/ TxCommit(p)
    \/ TxRollback(p)
    \/ ApproveRespond(p)

SpecRace == InitRace /\ [][NextRace]_vars

\* ------------------------------------- stock edits next to the order flow
\* The manager creates and updates stock items while orders are taken and
\* settled.  One stock item exists at the start; lines carry distinct prices.
StockOrderBodies ==
  { [customerName |-> "Abebe", customerContact |-> "0911", hasItems |-> TRUE,
     items |-> items] :
      items \in { <<[stockItemId |-> 1, quantity |-> 2, sellingPrice |-> <<5>>]>>,
                  <<[stockItemId |-> 1, quantity |-> 1, sellingPrice |-> <<5>>],
                    [stockItemId |-> 2, quantity |-> 1, sellingPrice |-> <<3>>]>> } }
\* -1, -1/2, 3/2 and MaxStock
QuantityInputs == {<<>>, <<-2>>, <<-1>>, <<3>>, <<2 * MaxStock>>}
PriceInputs == {<<>>, <<-1>>, <<7>>}
StockCreateBodies ==
  [name : {<<>>, <<1>>, <<2>>},
   quantity : QuantityInputs \ {<<-2>>, <<2 * MaxStock>>},
   buyingPrice : PriceInputs]
StockUpdateBodies ==
  [quantity : QuantityInputs \ {<<-1>>, <<3>>},
   buyingPrice : PriceInputs \ {<<-1>>}]
Rep1 == CHOOSE user \in Users : user.role = "SALES_REPRESENTATIVE"
Keeper == CHOOSE user \in Users : user.role = "STORE_KEEPER"
Manager == CHOOSE user \in Users : user.role = "MANAGER"

InitStock ==
  /\ stock = [s \in {1} |-> MaxStock]
  /\ buyingPrice = [s \in {1} |-> 0]
  /\ orders = <<>>
  /\ req = [p \in Reqs |-> Idle]
  /\ out = NoResp

NextStock ==
  \E p \in Reqs :
    \/ \E body \in StockOrderBodies : CreateOrder(p, Rep1, body)
    \/ CreateNextItem(p)
    \/ CreateInsert(p)
    \/ \E id \in OrderIds : ApproveFind(p, Keeper, id)
    \/ TxUpdateStock(p)
    \/ TxUpdateOrder(p)
    \/ TxCommit(p)
    \/ TxRollback(p)
    \/ ApproveRespond(p)
    \/ \E id \in OrderIds : RejectOrder(p, Keeper, id, "customer cancelled")
    \/ \E body \in StockCreateBodies : StockCreate(p, Manager, body)
    \/ StockInsert(p)
    \/ \E id \in StockIds, body \in StockUpdateBodies :
         StockUpdate(p, Manager, id, body)

SpecStock == InitStock /\ [][NextStock]_vars

\* ------------------------------------------- order intake with any numbers
\* Line quantities and selling prices as a client can send them: zero,
\* negative, absent.
IntakeLines ==
  [stockItemId : {1}, quantity : {-1, 0, 1}, sellingPrice : {<<>>, <<-5>>, <<5>>}]
IntakeBodies ==
  { [customerName |-> "Abebe", customerContact |-> "0911", hasItems |-> TRUE,
     items |-> items] :
      items \in { <<l>> : l \in IntakeLines } \cup
                { <<l, l>> : l \in {l \in IntakeLines : l.sellingPrice = <<-5>>} } }

NextIntake ==
  \E p \in Reqs :
    \/ \E body \in IntakeBodies : CreateOrder(p, Rep1, body)
    \/ CreateNextItem(p)
    \/ CreateInsert(p)
    \/ \E id \in OrderIds : ApproveFind(p, Keeper, id)
    \/ TxUpdateStock(p)
    \/ TxUpdateOrder(p)
    \/ TxCommit(p)
    \/ TxRollback(p)
    \/ ApproveRespond(p)

SpecIntake == Init /\ [][NextIntake]_vars

\* --------------------------------------------- every caller on every route
\* A second sales representative, and each route called by each caller.
AllUsers == Users \cup {[id |-> "rep2", role |-> "SALES_REPRESENTATIVE"]}
AccessBodies ==
  { body \in Bodies :
      /\ body.hasItems
      /\ Len(body.items) >= 1
      /\ \A k \in 1..Len(body.items) :
           body.items[k].stockItemId = 1 /\ body.items[k].quantity = 1 }

NextAccess ==
  \E p \in Reqs, user \in AllUsers :
    \/ ListOrders(p, user)
    \/ \E body \in AccessBodies : CreateOrder(p, user, body)
    \/ CreateNextItem(p)
    \/ CreateInsert(p)
    \/ \E id \in OrderIds : ApproveFind(p, user, id)
    \/ TxUpdateStock(p)
    \/ TxUpdateOrder(p)
    \/ TxCommit(p)
    \/ TxRollback(p)
    \/ ApproveRespond(p)
    \/ \E id \in OrderIds : RejectOrder(p, user, id, "customer cancelled")

SpecAccess == Init /\ [][NextAccess]_vars

\* ------------------------------------- order intake next to price edits
\* Lines with a selling price, with price 0 and with none, taken while the
\* manager edits the buying prices of the stock items.
PricingLines ==
  [stockItemId : StockIds, quantity : {MaxQty}, sellingPrice : {<<>>, <<0>>, <<5>>}]
PricingBodies ==
  { [customerName |-> "Abebe", customerContact |-> "0911", hasItems |-> TRUE,
     items |-> items] :
      items \in { <<l>> : l \in PricingLines } \cup
                { <<l1, l2>> : l1, l2 \in PricingLines } }
PricingUpdateBodies == [quantity : {<<>>}, buyingPrice : {<<5>>, <<7>>}]

NextPricing ==
  \E p \in Reqs :
    \/ \E body \in PricingBodies : CreateOrder(p, Rep1, body)
    \/ CreateNextItem(p)
    \/ CreateInsert(p)
    \/ \E id \in StockIds, body \in PricingUpdateBodies :
         StockUpdate(p, Manager, id, body)

SpecPricing == Init /\ [][NextPricing]_vars

\* ================================================================= claims
Quiescent == \A p \in Reqs : req[p].pc = "idle"
IsKeeper(user) == user.role = "STORE_KEEPER"
HasReason(reason) == reason # Undefined /\ reason # ""
ItemsOf(p) == orders[req[p].id].orderItems

\* the sum of the quantities of the lines of orderItems on stock item s
RECURSIVE LineSum(_, _, _)
LineSum(orderItems, s, k) ==
  IF k > Len(orderItems) THEN 0
  ELSE (IF orderItems[k].stockItemId = s THEN orderItems[k].quantity ELSE 0)
       + LineSum(orderItems, s, k + 1)

\* C1: with order creations and approvals only (no stock edits), every stock
\* item's quantity is >= 0 in every reachable state.
C1_StockNeverNegative == \A s \in DOMAIN stock : stock[s] >= 0

\* C2: two PENDING orders on one stock item, each fitting the quantity on hand
\* but not both: once the concurrent approvals have ended, exactly one order is
\* APPROVED, the other is still PENDING (its attempt failed with insufficient
\* stock, not with another error), and no quantity is negative.
C2_RaceOneWinner ==
  /\ (Quiescent /\ \E id \in 1..Len(orders) : orders[id].status = "APPROVED")
       => /\ Cardinality({id \in 1..Len(orders) : orders[id].status = "APPROVED"}) = 1
          /\ \A id \in 1..Len(orders) : orders[id].status \in {"APPROVED", "PENDING"}
          /\ \A s \in DOMAIN stock : stock[s] >= 0
  /\ (out.route = "approve" /\ out.status = 400) => out.error = "Insufficient stock"

\* C3: check and decrement are one atomic unit: when an approval's decrements
\* commit, every line's quantity is <= the quantity its stock item holds at
\* that moment.
C3_CheckHoldsAtCommit ==
  [][\A p \in Reqs :
       TxCommit(p) =>
         \A k \in 1..Len(ItemsOf(p)) :
           ItemsOf(p)[k].quantity <= stock[ItemsOf(p)[k].stockItemId]]_vars

\* C4: an order leaves PENDING once: a settlement is never applied to an order
\* that a settlement has already made APPROVED (its stock is decremented once).
C4_SettledOnce ==
  [][\A p \in Reqs :
       TxCommit(p) => orders[req[p].id].status # "APPROVED"]_vars

\* C5: the only status changes are PENDING -> APPROVED and PENDING -> REJECTED;
\* a status that is APPROVED or REJECTED never changes again.
C5_StatusOneWay ==
  [][\A id \in 1..Len(orders) :
       orders'[id].status # orders[id].status
         => /\ orders[id].status = "PENDING"
            /\ orders'[id].status \in {"APPROVED", "REJECTED"}]_vars

\* C6: a reject with a reason on an order that is already APPROVED or REJECTED
\* fails with a 4xx error and changes neither the order nor any stock quantity.
C6_RejectTerminalFails ==
  [][\A p \in Reqs, user \in Users, id \in OrderIds, reason \in Reasons :
       ( /\ IsKeeper(user)
         /\ HasReason(reason)
         /\ id <= Len(orders)
         /\ orders[id].status \in {"APPROVED", "REJECTED"}
         /\ RejectOrder(p, user, id, reason) )
       => /\ out'.status \in {400, 409}
          /\ UNCHANGED db]_vars

\* C7: an approve of an order that is already APPROVED or REJECTED fails with
\* the not-pending error, opens no settlement and changes neither the order
\* nor any stock quantity.
C7_ApproveTerminalFails ==
  [][\A p \in Reqs, user \in Users, id \in OrderIds :
       ( /\ IsKeeper(user)
         /\ id <= Len(orders)
         /\ orders[id].status \in {"APPROVED", "REJECTED"}
         /\ ApproveFind(p, user, id) )
       => /\ out' = Resp("approve", 400, "Order is not pending", 0)
          /\ req'[p] = Idle
          /\ UNCHANGED db]_vars

\* an approve of a terminal order has just been refused
C7_Witness ==
  /\ out = Resp("approve", 400, "Order is not pending", 0)
  /\ \E id \in 1..Len(orders) : orders[id].status = "APPROVED"

\* C8: every step of a settlement applies either nothing or all of it: a step
\* that is not the commit (an update issued inside the transaction, or the
\* failure after k of them) leaves every stock quantity and every order as it
\* was, a failure answers 500, and the commit applies every decrement together
\* with the status APPROVED, so no state shows a part of a settlement.
C8_SettlementAllOrNothing ==
  [][\A p \in Reqs :
       (req[p].pc = "tx" /\ req'[p] # req[p])
       => IF req'[p].pc = "committed"
          THEN /\ orders'[req[p].id].status = "APPROVED"
               /\ \A s \in DOMAIN stock :
                    stock'[s] = stock[s] - LineSum(ItemsOf(p), s, 1)
          ELSE /\ UNCHANGED db
               /\ req'[p].pc = "idle" => out'.status = 500]_vars

\* a settlement has just failed and been rolled back: an order with lines is
\* PENDING
C8_Witness ==
  /\ out = Resp("approve", 500, "Internal server error", 0)
  /\ \E id \in 1..Len(orders) :
       orders[id].status = "PENDING" /\ Len(orders[id].orderItems) = MaxLines

\* C9: an approve of a PENDING order with a line whose quantity exceeds the
\* quantity of its stock item fails with the insufficient-stock error naming
\* such an item, opens no settlement and changes nothing.
C9_ApproveShortFails ==
  [][\A p \in Reqs, user \in Users, id \in OrderIds :
       ( /\ IsKeeper(user)
         /\ id <= Len(orders)
         /\ orders[id].status = "PENDING"
         /\ \E k \in 1..Len(orders[id].orderItems) :
              orders[id].orderItems[k].quantity
                > stock[orders[id].orderItems[k].stockItemId]
         /\ ApproveFind(p, user, id) )
       => /\ out'.route = "approve"
          /\ out'.status = 400
          /\ out'.error = "Insufficient stock"
          /\ \E k \in 1..Len(orders[id].orderItems) :
               /\ orders[id].orderItems[k].stockItemId = out'.arg
               /\ orders[id].orderItems[k].quantity > stock[out'.arg]
          /\ req'[p] = Idle
          /\ UNCHANGED db]_vars

\* an approve has just been refused for a PENDING order whose first line fits
\* and whose second line does not
C9_Witness ==
  /\ out.route = "approve"
  /\ out.error = "Insufficient stock"
  /\ \E id \in 1..Len(orders) :
       /\ orders[id].status = "PENDING"
       /\ Len(orders[id].orderItems) = 2
       /\ orders[id].orderItems[1].quantity
            <= stock[orders[id].orderItems[1].stockItemId]
       /\ orders[id].orderItems[2].quantity
            > stock[orders[id].orderItems[2].stockItemId]
       /\ out.arg = orders[id].orderItems[2].stockItemId

\* C10: the commit of an approval sets that order's status to APPROVED and
\* lowers each stock item's quantity by exactly the sum of the order's line
\* quantities on that item; other stock items and other orders stay as they are.
C10_ApproveEffect ==
  [][\A p \in Reqs :
       TxCommit(p) =>
         /\ DOMAIN stock' = DOMAIN stock
         /\ \A s \in DOMAIN stock :
              stock'[s] = stock[s] - LineSum(ItemsOf(p), s, 1)
         /\ Len(orders') = Len(orders)
         /\ \A id \in 1..Len(orders) :
              IF id = req[p].id
              THEN orders'[id] = [orders[id] EXCEPT !.status = "APPROVED"]
              ELSE orders'[id] = orders[id]]_vars

\* an approval of a two-line order on one stock item has just committed
C10_Witness ==
  \E p \in Reqs :
    /\ req[p].pc = "committed"
    /\ orders[req[p].id].status = "APPROVED"
    /\ Len(orders[req[p].id].orderItems) = 2
    /\ orders[req[p].id].orderItems[1].stockItemId
         = orders[req[p].id].orderItems[2].stockItemId

\* C11: a reject with a reason on a PENDING order sets its status to REJECTED
\* and stores the reason; the order's lines, total and owner, every other
\* order and every stock quantity stay as they are.
C11_RejectPending ==
  [][out'.route = "reject" =>
     \A p \in Reqs, user \in Users, id \in OrderIds, reason \in Reasons :
       ( /\ IsKeeper(user)
         /\ HasReason(reason)
         /\ id <= Len(orders)
         /\ orders[id].status = "PENDING"
         /\ RejectOrder(p, user, id, reason) )
       => /\ out'.status = 200
          /\ orders'[id].status = "REJECTED"
          /\ orders'[id].rejectionReason = reason
          /\ orders'[id].orderItems = orders[id].orderItems
          /\ orders'[id].totalAmount = orders[id].totalAmount
          /\ orders'[id].salesRepId = orders[id].salesRepId
          /\ Len(orders') = Len(orders)
          /\ \A o \in 1..Len(orders) : o # id => orders'[o] = orders[o]
          /\ stock' = stock]_vars

\* a reject has just answered 200 for an order that was never approved: no
\* stock quantity has moved, the order is REJECTED with the reason
C11_Witness ==
  /\ out = Resp("reject", 200, "REJECTED", 0)
  /\ \A s \in DOMAIN stock : stock[s] = MaxStock
  /\ \A id \in 1..Len(orders) : orders[id].status # "APPROVED"
  /\ \E id \in 1..Len(orders) :
       /\ orders[id].status = "REJECTED"
       /\ orders[id].rejectionReason = "customer cancelled"

\* C12: a reject whose reason is absent or empty fails with the missing-reason
\* error and changes nothing, whatever the status of the order (and whether or
\* not the order exists).
C12_RejectNoReason ==
  [][out'.route = "reject" =>
     \A p \in Reqs, user \in Users, id \in OrderIds, reason \in Reasons :
       ( /\ IsKeeper(user)
         /\ ~HasReason(reason)
         /\ RejectOrder(p, user, id, reason) )
       => /\ out' = Resp("reject", 400, "Rejection reason is required", 0)
          /\ UNCHANGED db]_vars

\* a reject has just been refused for its missing reason while an APPROVED, a
\* REJECTED or a PENDING order exists
C12_Witness ==
  /\ out = Resp("reject", 400, "Rejection reason is required", 0)
  /\ Len(orders) = MaxOrders
  /\ \E id \in 1..Len(orders) : orders[id].status # "PENDING"

\* a line of a request body that the intake refuses, given the stock
BadLine(st, item) ==
  \/ item.stockItemId \notin DOMAIN st
  \/ item.quantity > st[item.stockItemId]

MissingFields(body) ==
  \/ body.customerName = ""
  \/ body.customerContact = ""
  \/ ~body.hasItems
  \/ Len(body.items) = 0

\* a request arrives in slot p: the slot was free and now holds a creation, or
\* the creation has answered at once
Arrives(p) ==
  /\ req[p].pc = "idle"
  /\ (out'.route = "create" \/ req'[p].pc = "create")

\* C13: an order creation with a missing name, contact or item list or with
\* an empty item list fails with a 400 on arrival; a creation whose line,
\* first or later, names no stock item or asks for more than the item holds
\* when the line is validated fails with a 400 there and the request is
\* over; and no failing creation persists anything, whatever lines it had
\* validated before.
C13_CreateFails ==
  [][/\ (out'.route = "create" /\ out'.status = 400) =>
          orders' = orders /\ stock' = stock
     /\ \A p \in Reqs :
          Arrives(p) =>
            \A in \in CreateInputs :
              ( /\ in[1].role = "SALES_REPRESENTATIVE"
                /\ \/ MissingFields(in[2])
                   \/ BadLine(stock, in[2].items[1])
                /\ CreateOrder(p, in[1], in[2]) )
              => /\ out'.status = 400
                 /\ out'.error \in {"Customer details and items are required",
                                    "Stock item not found", "Insufficient stock"}
                 /\ MissingFields(in[2])
                      <=> out'.error = "Customer details and items are required"
                 /\ req'[p] = Idle
     /\ \A p \in Reqs :
          ( /\ req[p].pc = "create"
            /\ req[p].i < Len(req[p].items)
            /\ BadLine(stock, req[p].items[req[p].i + 1])
            /\ CreateNextItem(p) )
          => /\ out'.route = "create"
             /\ out'.status = 400
             /\ out'.error \in {"Stock item not found", "Insufficient stock"}
             /\ out'.arg = req[p].items[req[p].i + 1].stockItemId
             /\ req'[p] = Idle]_vars

\* a creation has just been refused because a line asks for more than the
\* stock item holds
C13_Witness ==
  /\ out.route = "create"
  /\ out.status = 400
  /\ out.error = "Insufficient stock"
  /\ out.arg \in DOMAIN stock
  /\ stock[out.arg] < MaxQty

\* C14: no step of an order creation changes a stock quantity or an existing
\* order; the insert of a creation appends exactly one order, PENDING, with
\* one line per requested item, and answers 201; nothing else adds an order,
\* so every order that comes to exist starts PENDING.
C14_CreateFrame ==
  [][/\ Len(orders') >= Len(orders)
     /\ \A id \in (Len(orders) + 1)..Len(orders') :
          orders'[id].status = "PENDING"
     /\ Len(orders') > Len(orders) => \E p \in Reqs : CreateInsert(p)
     /\ \A p \in Reqs :
          Arrives(p) =>
            \A in \in CreateInputs :
              CreateOrder(p, in[1], in[2]) => UNCHANGED db
     /\ \A p \in Reqs : CreateNextItem(p) => UNCHANGED db
     /\ \A p \in Reqs :
          CreateInsert(p) =>
            /\ stock' = stock
            /\ \A id \in 1..Len(orders) : orders'[id] = orders[id]
            /\ out' = Resp("create", 201, "PENDING", 0)
            /\ Len(orders') = Len(orders) + 1
            /\ LET new == orders'[Len(orders')] IN
               /\ new.status = "PENDING"
               /\ Len(new.orderItems) = Len(req[p].items)
               /\ \A k \in 1..Len(req[p].items) :
                    /\ new.orderItems[k].stockItemId
                         = req[p].items[k].stockItemId
                    /\ new.orderItems[k].quantity
                         = req[p].items[k].quantity]_vars

\* a creation has just added a PENDING order of two lines
C14_Witness ==
  /\ out = Resp("create", 201, "PENDING", 0)
  /\ Len(orders) >= 1
  /\ orders[Len(orders)].status = "PENDING"
  /\ Len(orders[Len(orders)].orderItems) = 2

\* C16: in every reachable state an order has a rejectionReason if and only if
\* its status is REJECTED.
C16_ReasonIffRejected ==
  \A id \in 1..Len(orders) :
    (orders[id].rejectionReason # NULL) <=> (orders[id].status = "REJECTED")

\* the sum of totalPrice over the lines of orderItems from line k on
RECURSIVE TotalOf(_, _)
TotalOf(orderItems, k) ==
  IF k > Len(orderItems) THEN 0
  ELSE orderItems[k].totalPrice + TotalOf(orderItems, k + 1)

\* C15: every order's totalAmount is the sum of its lines' totalPrice, and no
\* step (approve, reject, stock create, stock update, another order's
\* creation) changes an existing order's totalAmount or any of its lines.
C15_TotalFixed ==
  [][ /\ \A id \in 1..Len(orders') :
           orders'[id].totalAmount = TotalOf(orders'[id].orderItems, 1)
      /\ \A id \in 1..Len(orders) :
           /\ id <= Len(orders')
           /\ orders'[id].totalAmount = orders[id].totalAmount
           /\ orders'[id].orderItems = orders[id].orderItems ]_vars

\* a two-line order of total 5 + 3 is APPROVED and the manager has just
\* changed the buying price of one of its stock items
C15_Witness ==
  /\ out = Resp("stock.update", 200, "", 1)
  /\ buyingPrice[1] = 7
  /\ \E id \in 1..Len(orders) :
       /\ orders[id].status = "APPROVED"
       /\ Len(orders[id].orderItems) = 2
       /\ orders[id].totalAmount = 8

\* C17: every persisted order line has quantity >= 1 and unitPrice >= 0.
C17_LinesValid ==
  \A id \in 1..Len(orders) :
    \A k \in 1..Len(orders[id].orderItems) :
      /\ orders[id].orderItems[k].quantity >= 1
      /\ orders[id].orderItems[k].unitPrice >= 0

\* C20: no step writes a negative quantity into a stock item: a quantity that
\* is negative after a step was negative before it.
C20_NoNegativeWrite ==
  [][\A s \in DOMAIN stock' :
       stock'[s] < 0 => (s \in DOMAIN stock /\ stock[s] < 0)]_vars

IsRep(user) == user.role = "SALES_REPRESENTATIVE"

\* C18: an order is created only by a request of a SALES_REPRESENTATIVE, and
\* its owner is that caller; an approval is opened, and so an order approved,
\* only by a request of a STORE_KEEPER, and an order is rejected only by one;
\* a request of any other role to create, approve or reject is answered 403
\* and changes nothing.
C18_RoleGating ==
  [][ /\ \A p \in Reqs, user \in AllUsers, body \in AccessBodies :
           (~IsRep(user) /\ CreateOrder(p, user, body)) =>
             out' = Forbidden("create") /\ UNCHANGED db /\ req' = req
      /\ \A p \in Reqs :
           (req[p].pc = "idle" /\ req'[p].pc = "create") =>
             \E user \in AllUsers, body \in AccessBodies :
               IsRep(user) /\ CreateOrder(p, user, body) /\ req'[p].user = user
      /\ \A p \in Reqs :
           (req[p].pc = "create" /\ req'[p].pc = "create") =>
             req'[p].user = req[p].user
      /\ \A p \in Reqs, user \in AllUsers, id \in OrderIds :
           (~IsKeeper(user) /\ ApproveFind(p, user, id)) =>
             out' = Forbidden("approve") /\ UNCHANGED db /\ req' = req
      /\ out'.route = "reject" =>
           \A p \in Reqs, user \in AllUsers, id \in OrderIds :
             (~IsKeeper(user) /\ RejectOrder(p, user, id, "customer cancelled")) =>
               out' = Forbidden("reject") /\ UNCHANGED db /\ req' = req
      /\ Len(orders') > Len(orders) =>
           \E p \in Reqs :
             /\ req[p].pc = "create"
             /\ IsRep(req[p].user)
             /\ CreateInsert(p)
             /\ orders'[Len(orders')].salesRepId = req[p].user.id
      /\ \A p \in Reqs :
           (req[p].pc = "idle" /\ req'[p].pc = "tx") =>
             \E user \in AllUsers, id \in OrderIds :
               IsKeeper(user) /\ ApproveFind(p, user, id)
      /\ (\E id \in 1..Len(orders) : orders'[id].status # orders[id].status) =>
           \/ \E p \in Reqs : req[p].pc = "tx" /\ TxCommit(p)
           \/ \E p \in Reqs, user \in AllUsers, id \in OrderIds :
                IsKeeper(user) /\ RejectOrder(p, user, id, "customer cancelled")
    ]_vars

\* both representatives own an order, one order is settled, and a request to
\* reject from a caller who is no store keeper has just been refused
C18_Witness ==
  /\ out = Forbidden("reject")
  /\ Len(orders) = MaxOrders
  /\ orders[1].salesRepId # orders[2].salesRepId
  /\ \E id \in 1..Len(orders) : orders[id].status = "APPROVED"
  /\ \E id \in 1..Len(orders) : orders[id].status = "PENDING"

\* the orders a sales representative owns
OwnedBy(salesRepId) ==
  { id \in 1..Len(orders) : orders[id].salesRepId = salesRepId }
Range(seq) == { seq[i] : i \in 1..Len(seq) }

\* C19: a listing answers 200 and changes nothing; for a SALES_REPRESENTATIVE
\* it holds exactly the orders the caller owns, for any other caller all
\* orders, each once.
C19_ListingVisibility ==
  [][out'.route = "list" =>
       /\ UNCHANGED db
       /\ req' = req
       /\ \A p \in Reqs, user \in AllUsers :
            ListOrders(p, user) =>
              /\ out'.status = 200
              /\ Cardinality(Range(out'.list)) = Len(out'.list)
              /\ Range(out'.list) =
                   IF IsRep(user) THEN OwnedBy(user.id) ELSE 1..Len(orders)]_vars

\* two orders of two owners exist and a listing has returned only one of them
C19_Witness ==
  /\ out.route = "list"
  /\ Len(orders) = MaxOrders
  /\ orders[1].salesRepId # orders[2].salesRepId
  /\ Len(out.list) = 1

\* C21: every line of an order created with 201 carries the requested stock
\* item and quantity, its unitPrice is the selling price the request gives
\* for that line (0 when it gives none), and its totalPrice is quantity x
\* unitPrice, whatever the buying prices of the stock items are.
C21_LinePricing ==
  [][/\ \A p \in Reqs :
          Arrives(p) =>
            \A body \in PricingBodies :
              (CreateOrder(p, Rep1, body) /\ req'[p].pc = "create") =>
                req'[p].items = body.items
     /\ \A p \in Reqs :
          (req[p].pc = "create" /\ req'[p].pc = "create") =>
            req'[p].items = req[p].items
     /\ \A p \in Reqs :
          CreateInsert(p) =>
            LET lines == orders'[Len(orders')].orderItems
                items == req[p].items IN
            /\ out'.status = 201
            /\ Len(orders') = Len(orders) + 1
            /\ Len(lines) = Len(items)
            /\ \A k \in 1..Len(lines) :
                 /\ lines[k].stockItemId = items[k].stockItemId
                 /\ lines[k].quantity = items[k].quantity
                 /\ lines[k].unitPrice =
                      (IF items[k].sellingPrice = <<>> THEN 0
                       ELSE items[k].sellingPrice[1])
                 /\ lines[k].totalPrice =
                      lines[k].quantity * lines[k].unitPrice]_vars

\* an order has just been created with a line priced 5 on a stock item whose
\* buying price is 7 and a line without a selling price, priced 0
C21_Witness ==
  /\ out = Resp("create", 201, "PENDING", 0)
  /\ LET lines == orders[Len(orders)].orderItems IN
     /\ Len(lines) = 2
     /\ lines[1].unitPrice = 5
     /\ lines[1].totalPrice = 5 * MaxQty
     /\ buyingPrice[lines[1].stockItemId] = 7
     /\ lines[2].unitPrice = 0
     /\ buyingPrice[lines[2].stockItemId] = 5

\* the quantity the APPROVED orders among orders k.. hold of stock item s
RECURSIVE ApprovedSum(_, _)
ApprovedSum(s, k) ==
  IF k > Len(orders) THEN 0
  ELSE (IF orders[k].status = "APPROVED"
        THEN LineSum(orders[k].orderItems, s, 1) ELSE 0)
       + ApprovedSum(s, k + 1)

\* C22: with no request in flight and no stock edits, every stock item holds
\* its initial quantity minus the line quantities on it of the orders whose
\* status is APPROVED (so a REJECTED order has taken nothing).
C22_StockConservation ==
  Quiescent =>
    \A s \in DOMAIN stock : stock[s] = MaxStock - ApprovedSum(s, 1)
====
